---- MODULE Spec2Model ----
(***************************************************************************)
(* pschema-rs: validation of a knowledge graph against a shape expression  *)
(* by a Pregel (BSP) iteration over an edge table.                         *)
(*                                                                         *)
(* The model follows src/src/pschema.rs (PSchema::validate and its three   *)
(* Pregel callbacks), src/src/shape/shape_tree.rs (the level schedule) and *)
(* the Validate implementations of src/src/shape/shex.rs and               *)
(* src/src/shape/shape.rs.  The repository holds two implementations of    *)
(* ShapeComposite::validate and Cardinality::validate (module shex and     *)
(* module shape); the variable shapeModule records which one is linked.    *)
(*                                                                         *)
(* Column expressions are modelled by their value on one row: a message is *)
(* a label or NULL, a list column is a sequence, and the NULL list is the  *)
(* empty sequence (the aggregate phase never yields a non-NULL empty list, *)
(* see aggregate_messages).                                                *)
(***************************************************************************)
EXTENDS Integers, Sequences

(***************************************************************************)
(* Bounds of the model.                                                    *)
(***************************************************************************)
\* longest edge table of the specification Spec
MaxEdges == 3
\* longest edge table of the specification SpecCheck (input check)
MaxRows == 1
\* deepest shape of the specification SpecTree (level schedule)
MaxDepth == 3
\* supersteps run past the number of levels
MaxExtra == 2
\* calls of ShapeIterator::next on one iterator
MaxCalls == 9

(***************************************************************************)
(* Entity and property identifiers of the test graphs.                     *)
(***************************************************************************)
Human == 5
TimBernersLee == 80
VintCerf == 92743
InstanceOf == 31
Award == 3320352
Country == 17
BirthPlace == 19
BirthDate == 569
London == 84
AwardReceived == 166
Employer == 108
UnitedKingdom == 145
ScienceAward == 11448906

\* lit(NULL): the message of an edge no shape matched (outside the u8 labels)
NULL == -1
\* the NULL value of a list column (labels, aggregated messages)
NullList == << >>

(***************************************************************************)
(* Shapes (src/src/shape/shape.rs, src/src/shape/shex.rs).                 *)
(***************************************************************************)
Inclusive(n) == [bound |-> "Inclusive", n |-> n]
Exclusive(n) == [bound |-> "Exclusive", n |-> n]

TripleConstraint(l, p, o) ==
    [kind |-> "TripleConstraint", label |-> l, predicate |-> p, object |-> o]

ShapeReference(l, p, ref) ==
    [kind |-> "ShapeReference", label |-> l, predicate |-> p, reference |-> ref]

\* ShapeComposite is the conjunction of its children (the spec's ShapeAnd)
ShapeComposite(l, children) ==
    [kind |-> "ShapeComposite", label |-> l, shapes |-> children]

\* the disjunction of its children; only its constructor is used in the sources
ShapeOr(l, children) ==
    [kind |-> "ShapeOr", label |-> l, shapes |-> children]

ShapeLiteral(l, p, dt) ==
    [kind |-> "ShapeLiteral", label |-> l, predicate |-> p, dtype |-> dt]

Cardinality(inner, lo, hi) ==
    [kind |-> "Cardinality", shape |-> inner, min |-> lo, max |-> hi]

RECURSIVE get_label(_)
get_label(s) ==
    IF s.kind = "Cardinality" THEN get_label(s.shape) ELSE s.label

(***************************************************************************)
(* ShapeTree (src/src/shape/shape_tree.rs).                                *)
(***************************************************************************)
\* a faulty variant of Children: the shape a ShapeReference refers to is not
\* enqueued
Children_no_reference(s) ==
    CASE s.kind = "ShapeComposite"   -> s.shapes
      [] s.kind = "ShapeOr"          -> s.shapes
      [] s.kind = "Cardinality"      -> << s.shape >>
      [] OTHER                       -> << >>

\* a faulty variant of Children: the inner shape of a Cardinality is not enqueued
Children_no_cardinality(s) ==
    CASE s.kind = "ShapeReference"   -> << s.reference >>
      [] s.kind = "ShapeComposite"   -> s.shapes
      [] s.kind = "ShapeOr"          -> s.shapes
      [] OTHER                       -> << >>

\* the nodes ShapeTree::new enqueues for a node it pops
Children(s) ==
    CASE s.kind = "TripleConstraint" -> << >>
      [] s.kind = "ShapeLiteral"     -> << >>
      [] s.kind = "ShapeReference"   -> << s.reference >>
      [] s.kind = "ShapeComposite"   -> s.shapes
      [] s.kind = "ShapeOr"          -> s.shapes
      [] s.kind = "Cardinality"      -> << s.shape >>

RECURSIVE ChildrenOfAll(_)
ChildrenOfAll(nodes) ==
    IF nodes = << >> THEN << >>
    ELSE Children(Head(nodes)) \o ChildrenOfAll(Tail(nodes))

RECURSIVE RoundsUpTo(_, _)
\* the first k rounds of the while loop from the queue `nodes`
RoundsUpTo(nodes, k) ==
    IF nodes = << >> \/ k = 0 THEN << >>
    ELSE << nodes >> \o RoundsUpTo(ChildrenOfAll(nodes), k - 1)

\* one round of the while loop per element: temp of the round, root first
\* (sixteen rounds at a time, which keeps the evaluation of a tree of some
\* hundred levels shallow)
RECURSIVE Rounds(_)
Rounds(nodes) ==
    IF nodes = << >> THEN << >>
    ELSE LET part == RoundsUpTo(nodes, 16) IN
         part \o Rounds(ChildrenOfAll(part[Len(part)]))

\* a faulty variant of Reverse: the levels are left root first
Reverse_none(s) == s

Reverse(s) == [i \in 1..Len(s) |-> s[Len(s) + 1 - i]]

ShapeTree_new(shape) == Reverse(Rounds(<< shape >>))

IsNary(s) == s.kind \in {"ShapeComposite", "ShapeOr", "Cardinality"}

\* a faulty variant of contains_nary: the Cardinality arm continues
contains_nary_composite_only(shapes) ==
    \E i \in 1..Len(shapes) : \E j \in 1..Len(shapes[i]) :
        shapes[i][j].kind \in {"ShapeComposite", "ShapeOr"}

contains_nary(shapes) ==
    \E i \in 1..Len(shapes) : \E j \in 1..Len(shapes[i]) : IsNary(shapes[i][j])

\* a faulty variant of iterations: the level count, whatever the tree contains
iterations_all_levels(shapes) == Len(shapes) % 256

\* `len() as u8 - 1` where the truncated length is 0: the subtraction
\* overflows, which panics in a build with overflow checks and wraps in one
\* without
iterations_overflows(shapes) ==
    contains_nary(shapes) /\ Len(shapes) % 256 = 0

\* `len() as u8` truncates to 8 bits; the subtraction is the wrapping one of
\* a build without overflow checks
iterations(shapes) ==
    IF contains_nary(shapes) THEN ((Len(shapes) % 256) - 1) % 256
    ELSE Len(shapes) % 256

(***************************************************************************)
(* Validate: the value of each shape's column expression on one row.       *)
(***************************************************************************)
\* list.contains / is_in on a list column; NULL on the NULL list, which
\* `when` treats as false
IsIn(x, list) == \E i \in 1..Len(list) : list[i] = x

\* a faulty variant of concat_list: the literal alone, the previous list dropped
concat_list_drop_prev(x, prev) ==
    IF prev = NullList THEN NullList ELSE << x >>

\* concat_list([lit(x), prev]); NULL when prev is NULL
concat_list(x, prev) ==
    IF prev = NullList THEN NullList ELSE << x >> \o prev

\* a faulty variant of TripleConstraint_validate: the predicate literal is sent
TripleConstraint_validate_predicate(shape, edge, prev) ==
    IF edge.dst = shape.object /\ edge.property_id = shape.predicate
    THEN shape.predicate
    ELSE prev

\* a faulty variant of TripleConstraint_validate: `or` in place of `and`
TripleConstraint_validate_or(shape, edge, prev) ==
    IF edge.dst = shape.object \/ edge.property_id = shape.predicate
    THEN shape.label
    ELSE prev

TripleConstraint_validate(shape, edge, prev) ==
    IF edge.dst = shape.object /\ edge.property_id = shape.predicate
    THEN shape.label
    ELSE prev

\* a faulty variant of ShapeReference_validate: the labels of the object are not read
ShapeReference_validate_no_join(shape, edge, dst_labels, prev) ==
    IF edge.property_id = shape.predicate THEN shape.label ELSE prev

\* dst_labels: the labels column of the edge's destination vertex
ShapeReference_validate(shape, edge, dst_labels, prev) ==
    IF IsIn(get_label(shape.reference), dst_labels)
       /\ edge.property_id = shape.predicate
    THEN shape.label
    ELSE prev

\* a faulty variant of ShapeLiteral_validate: the object is not compared with
\* the subject
ShapeLiteral_validate_any_object(shape, edge, prev) ==
    IF edge.dtype = shape.dtype /\ edge.property_id = shape.predicate
    THEN shape.label
    ELSE prev

ShapeLiteral_validate(shape, edge, prev) ==
    IF edge.dtype = shape.dtype
       /\ edge.dst = edge.src
       /\ edge.property_id = shape.predicate
    THEN shape.label
    ELSE prev

\* module shex: every child's label is in the message list
ShapeComposite_validate_shex(shape, messages, prev) ==
    IF \A i \in 1..Len(shape.shapes) : IsIn(get_label(shape.shapes[i]), messages)
    THEN concat_list(shape.label, prev)
    ELSE prev

RECURSIVE SumIsIn(_, _)
\* explode().is_in(series).sum(): the messages that are some child's label
SumIsIn(messages, series) ==
    IF messages = << >> THEN 0
    ELSE (IF Head(messages) \in series THEN 1 ELSE 0)
         + SumIsIn(Tail(messages), series)

\* module shape: as many messages are child labels as there are children
ShapeComposite_validate_shape(shape, messages, prev) ==
    IF SumIsIn(messages,
               {get_label(shape.shapes[i]) : i \in 1..Len(shape.shapes)})
       = Len(shape.shapes) % 256
    THEN concat_list(shape.label, prev)
    ELSE prev

\* the disjunction, from the specification: some child's label is a message
ShapeOr_validate(shape, messages, prev) ==
    IF \E i \in 1..Len(shape.shapes) : IsIn(get_label(shape.shapes[i]), messages)
    THEN concat_list(shape.label, prev)
    ELSE prev

\* list.eval(col("").eq(label).cumsum(false)).list().first(): the first
\* element of the running count, NULL on the NULL list
CardinalityCount(shape, messages) ==
    IF messages = NullList THEN NULL
    ELSE IF messages[1] = get_label(shape.shape) THEN 1 ELSE 0

BoundMin(b, count) ==
    IF b.bound = "Inclusive" THEN count >= b.n ELSE count > b.n

BoundMax(b, count) ==
    IF b.bound = "Inclusive" THEN count <= b.n ELSE count < b.n

\* module shex
Cardinality_validate_shex(shape, messages, prev) ==
    LET count == CardinalityCount(shape, messages) IN
    IF count # NULL /\ BoundMin(shape.min, count) /\ BoundMax(shape.max, count)
    THEN concat_list(get_label(shape.shape), prev)
    ELSE prev

\* module shape: when(lit(true)), the bounds are commented out
Cardinality_validate_shape(shape, messages, prev) ==
    concat_list(get_label(shape.shape), prev)

(***************************************************************************)
(* The Pregel callbacks of PSchema (src/src/pschema.rs).                   *)
(***************************************************************************)
send_node(node, edge, dst_labels, ans) ==
    CASE node.kind = "TripleConstraint" ->
             TripleConstraint_validate(node, edge, ans)
      [] node.kind = "ShapeReference" ->
             ShapeReference_validate(node, edge, dst_labels, ans)
      [] node.kind = "ShapeLiteral" ->
             ShapeLiteral_validate(node, edge, ans)
      [] OTHER -> ans

RECURSIVE send_fold(_, _, _, _)
\* a faulty variant of send_fold: the first node of the level is the outermost
\* `when`, so the first matching node wins
send_fold_first_wins(nodes, edge, dst_labels, ans) ==
    IF nodes = << >> THEN ans
    ELSE send_node(Head(nodes), edge, dst_labels,
                   send_fold(Tail(nodes), edge, dst_labels, ans))

\* ans = node.validate(ans) for each node in turn: the last node of the level
\* is the outermost `when`
send_fold(nodes, edge, dst_labels, ans) ==
    IF nodes = << >> THEN ans
    ELSE send_fold(Tail(nodes), edge, dst_labels,
                   send_node(Head(nodes), edge, dst_labels, ans))

\* nodes: the level the iterator yields, << >> when it is exhausted
send_messages(nodes, edge, dst_labels) ==
    send_fold(nodes, edge, dst_labels, NULL)

RECURSIVE aggregate_messages(_)
\* a faulty variant of aggregate_messages keeps nothing
aggregate_messages_none(received) == NullList

\* a faulty variant of aggregate_messages: the NULL messages are not filtered
aggregate_messages_keep_null(received) == received

\* a faulty variant of aggregate_messages: a label is kept once
aggregate_messages_unique(received) ==
    IF received = << >> THEN NullList
    ELSE LET rest == aggregate_messages(Tail(received)) IN
         IF Head(received) = NULL \/ (\E i \in 1..Len(rest) : rest[i] = Head(received))
         THEN rest
         ELSE << Head(received) >> \o rest

\* a faulty variant of aggregate_messages: the first message only
aggregate_messages_first(received) ==
    IF received = << >> \/ Head(received) = NULL THEN NullList
    ELSE << Head(received) >>

\* received: the messages sent to one vertex, in row order.  The NULL ones
\* are filtered out; a vertex left with none has a NULL list (the tests of
\* pschema.rs expect such vertices to fail labels.is_not_null()).
aggregate_messages(received) ==
    IF received = << >> THEN NullList
    ELSE IF Head(received) = NULL THEN aggregate_messages(Tail(received))
    ELSE << Head(received) >> \o aggregate_messages(Tail(received))

v_prog_node(node, module, messages, ans) ==
    CASE node.kind = "ShapeComposite" ->
             IF module = "shex"
             THEN ShapeComposite_validate_shex(node, messages, ans)
             ELSE ShapeComposite_validate_shape(node, messages, ans)
      [] node.kind = "Cardinality" ->
             IF module = "shex"
             THEN Cardinality_validate_shex(node, messages, ans)
             ELSE Cardinality_validate_shape(node, messages, ans)
      [] node.kind = "ShapeOr" -> ShapeOr_validate(node, messages, ans)
      [] OTHER -> ans

RECURSIVE v_prog_fold(_, _, _, _)
v_prog_fold(nodes, module, messages, ans) ==
    IF nodes = << >> THEN ans
    ELSE v_prog_fold(Tail(nodes), module, messages,
                     v_prog_node(Head(nodes), module, messages, ans))

\* the fold starts from Column::msg(None), the aggregated messages
v_prog(nodes, module, messages) ==
    v_prog_fold(nodes, module, messages, messages)

(***************************************************************************)
(* Inputs: the schemas and the edge tables the model draws from.           *)
(***************************************************************************)
Edge(s, p, o, dt) == [src |-> s, property_id |-> p, dst |-> o, dtype |-> dt]

\* the rows an edge table is made of (rows may repeat)
EdgeUniverse ==
    { Edge(TimBernersLee, InstanceOf, Human, "Entity"),
      Edge(VintCerf, InstanceOf, Human, "Entity"),
      Edge(London, Country, UnitedKingdom, "Entity"),
      Edge(TimBernersLee, BirthPlace, London, "Entity"),
      Edge(TimBernersLee, AwardReceived, Award, "Entity"),
      Edge(Award, InstanceOf, ScienceAward, "Entity"),
      Edge(TimBernersLee, BirthDate, TimBernersLee, "DateTime"),
      Edge(VintCerf, BirthDate, TimBernersLee, "DateTime") }

Tables(n) == UNION { [1..k -> EdgeUniverse] : k \in 0..n }

\* the tables of a single row
OneRowTables == { << e >> : e \in EdgeUniverse }

SimpleSchema == TripleConstraint(1, InstanceOf, Human)

PaperSchema ==
    ShapeComposite(1, << TripleConstraint(2, InstanceOf, Human),
                         TripleConstraint(3, BirthPlace, London),
                         ShapeLiteral(4, BirthDate, "DateTime") >>)

ComplexSchema ==
    ShapeComposite(1,
        << TripleConstraint(2, InstanceOf, Human),
           ShapeReference(3, BirthPlace,
                          TripleConstraint(5, Country, UnitedKingdom)),
           ShapeLiteral(4, BirthDate, "DateTime") >>)

ReferenceSchema ==
    ShapeReference(1, BirthPlace, TripleConstraint(2, Country, UnitedKingdom))

OptionalSchema ==
    ShapeComposite(1,
        << TripleConstraint(2, InstanceOf, Human),
           Cardinality(TripleConstraint(3, AwardReceived, Award),
                       Inclusive(0), Inclusive(1)) >>)

ConditionalSchema ==
    ShapeOr(1, << TripleConstraint(2, InstanceOf, Human),
                  TripleConstraint(3, InstanceOf, ScienceAward) >>)

\* a conjunction whose first child is itself a conjunction
NestedSchema ==
    ShapeComposite(1,
        << ShapeComposite(2, << TripleConstraint(3, InstanceOf, Human),
                                TripleConstraint(4, BirthPlace, London) >>),
           TripleConstraint(5, AwardReceived, Award) >>)

\* two children of one conjunction carry the same label
DuplicateSchema ==
    ShapeComposite(1, << TripleConstraint(2, InstanceOf, Human),
                         TripleConstraint(2, BirthPlace, London) >>)

\* born in London, and born in a place of the United Kingdom: the edge
\* (v, BirthPlace, London) can match both children
BornInSchema ==
    ShapeComposite(1,
        << TripleConstraint(2, BirthPlace, London),
           ShapeReference(3, BirthPlace,
                          TripleConstraint(4, Country, UnitedKingdom)) >>)

\* a Cardinality whose inner constraint shares its level with another leaf
MixedSchema ==
    ShapeComposite(1,
        << Cardinality(TripleConstraint(3, AwardReceived, Award),
                       Inclusive(1), Inclusive(1)),
           ShapeReference(2, BirthPlace,
                          TripleConstraint(4, InstanceOf, Human)) >>)

Schemas ==
    { SimpleSchema, PaperSchema, ComplexSchema, ReferenceSchema,
      OptionalSchema, ConditionalSchema, NestedSchema,
      DuplicateSchema, BornInSchema, MixedSchema }

\* the leaves a generated shape ends in
Leaves(l) ==
    { TripleConstraint(l, InstanceOf, Human),
      ShapeLiteral(l, BirthDate, "DateTime") }

RECURSIVE GenShapes(_, _)
\* the shapes of at most `depth` nested constructors; the node at position l
\* has label l and its children the labels 2l and 2l + 1
GenShapes(depth, l) ==
    IF depth = 1 THEN Leaves(l)
    ELSE LET sub == GenShapes(depth - 1, 2 * l) IN
         Leaves(l)
         \cup { ShapeReference(l, BirthPlace, c) : c \in sub }
         \cup { Cardinality(c, Inclusive(0), Inclusive(1)) : c \in sub }
         \cup { ShapeComposite(l, << c, e >>) : c \in sub, e \in Leaves(2 * l + 1) }
         \cup { ShapeComposite(l, << e, c >>) : c \in sub, e \in Leaves(2 * l + 1) }
         \cup { ShapeOr(l, << c, e >>) : c \in sub, e \in Leaves(2 * l + 1) }
         \cup { ShapeOr(l, << e, c >>) : c \in sub, e \in Leaves(2 * l + 1) }

TreeShapes == GenShapes(MaxDepth, 1)

\* reference_schema of utils/examples.rs: a reference to a reference
ChainSchema ==
    ShapeReference(1, Employer,
        ShapeReference(2, AwardReceived,
                       TripleConstraint(3, InstanceOf, ScienceAward)))

TreeSchemas == TreeShapes \cup Schemas \cup {ChainSchema}

RECURSIVE Nest(_, _)
\* n nested ShapeReference constructors over the shape s, built by halves
Nest(s, n) ==
    IF n = 0 THEN s
    ELSE IF n = 1 THEN ShapeReference(2, BirthPlace, s)
    ELSE LET inner == Nest(s, n \div 2) IN
         IF inner = s THEN s ELSE Nest(inner, n - (n \div 2))

\* a shape of n + 1 levels: n references over a TripleConstraint; the labels
\* are u8 values and need not differ
Chain(n) == Nest(TripleConstraint(1, InstanceOf, Human), n)

\* shapes whose trees have 255, 256 and 257 levels, with and without an
\* n-ary node
DeepSchemas ==
    { Chain(254), Chain(255), Chain(256),
      ShapeComposite(0, << Chain(253) >>), ShapeComposite(0, << Chain(254) >>),
      ShapeComposite(0, << Chain(255) >>) }

DeepTables ==
    { << e >> : e \in { x \in EdgeUniverse : x.property_id = BirthPlace } }

(***************************************************************************)
(* ShapeIterator (src/src/shape.rs): the levels of a shape, leaves first.  *)
(* WShape is the TripleConstraint, WShapeRef the ShapeReference,           *)
(* WShapeComposite the ShapeComposite and WShapeLiteral the ShapeLiteral.  *)
(***************************************************************************)
RECURSIVE IsWShape(_)
\* the shapes of the enum Shape of src/shape.rs
IsWShape(s) ==
    CASE s.kind \in {"TripleConstraint", "ShapeLiteral"} -> TRUE
      [] s.kind = "ShapeReference" -> IsWShape(s.reference)
      [] s.kind = "ShapeComposite" ->
             \A i \in 1..Len(s.shapes) : IsWShape(s.shapes[i])
      [] OTHER -> FALSE

\* a composite whose references resolve at different depths
UnevenSchema ==
    ShapeComposite(1,
        << ShapeReference(2, BirthPlace, TripleConstraint(3, InstanceOf, Human)),
           ShapeReference(4, Employer,
               ShapeReference(5, AwardReceived,
                   TripleConstraint(6, InstanceOf, ScienceAward))) >>)

\* a composite of a composite and a reference
StackedSchema ==
    ShapeComposite(1,
        << ShapeComposite(2,
               << TripleConstraint(3, InstanceOf, Human),
                  TripleConstraint(4, BirthPlace, London) >>),
           ShapeReference(5, AwardReceived,
               TripleConstraint(6, InstanceOf, ScienceAward)) >>)

IterSchemas ==
    { s \in TreeSchemas : IsWShape(s) } \cup {UnevenSchema, StackedSchema}

\* Vec::contains: some element equals x (the derived PartialEq)
contains(set, x) == \E i \in 1..Len(set) : set[i] = x

\* WShapeComposite::is_subset
is_subset(shape, set) ==
    IF Len(set) < Len(shape.shapes) THEN FALSE
    ELSE \A i \in 1..Len(shape.shapes) : contains(set, shape.shapes[i])

RECURSIVE Visit(_, _)
\* the while loop of next(): the leaves pushed while the queue `nodes` drains
Visit(nodes, curr) ==
    IF nodes = << >> THEN << >>
    ELSE LET node == Head(nodes)
             rest == Tail(nodes) IN
         CASE node.kind \in {"TripleConstraint", "ShapeLiteral"} ->
                  << node >> \o Visit(rest, curr)
           [] node.kind = "ShapeComposite" ->
                  IF is_subset(node, curr) THEN << node >> \o Visit(rest, curr)
                  ELSE Visit(rest \o node.shapes, curr)
           [] node.kind = "ShapeReference" ->
                  IF contains(curr, node.reference)
                  THEN << node >> \o Visit(rest, curr)
                  ELSE Visit(rest \o << node.reference >>, curr)

\* Shape::iter
Shape_iter(shape) == [shape |-> shape, curr |-> << >>, next |-> << >>]

Some(level) == [tag |-> "Some", value |-> level]

None == [tag |-> "None", value |-> << >>]

Columns == << "src", "dst", "property_id", "dtype" >>

AllColumns == { Columns[i] : i \in 1..Len(Columns) }

(***************************************************************************)
(* State.                                                                  *)
(***************************************************************************)
VARIABLES
    start,               \* PSchema.start
    shapeModule,         \* "shex" or "shape": the Validate implementations linked
    columns,             \* the columns of graph.edges
    edges,               \* the rows of graph.edges, in row order
    pc,                  \* "Built", "Running", "Validated", "Failed", "Panicked"
    error,               \* the PolarsError validate returned
    shape_tree,          \* ShapeTree.shapes
    send_messages_iter,  \* levels the send iterator has yielded
    v_prog_iter,         \* levels the v_prog iterator has yielded
    max_iterations,      \* PregelBuilder.max_iterations
    iteration,           \* supersteps completed
    phase,               \* "send", "aggregate", "v_prog" within a superstep
    send_level,          \* the level the last send phase drew (<< >>: None)
    v_prog_level,        \* the level the last vertex-update phase drew
    msg,                 \* per edge row: the message of the send phase
    aggregated,          \* per vertex: the aggregated message list
    labels,              \* per vertex: the labels column
    result,              \* the rows validate returns
    shapeIterator,       \* a ShapeIterator of src/shape.rs: shape, curr, next
    returned             \* what its calls of next() returned, in order

vars ==
    << start, shapeModule, columns, edges, pc, error, shape_tree,
       send_messages_iter, v_prog_iter, max_iterations, iteration, phase,
       send_level, v_prog_level, msg, aggregated, labels, result,
       shapeIterator, returned >>

\* the state of PSchema::validate
pschema_vars ==
    << start, shapeModule, columns, edges, pc, error, shape_tree,
       send_messages_iter, v_prog_iter, max_iterations, iteration, phase,
       send_level, v_prog_level, msg, aggregated, labels, result >>

\* GraphFrame::from_edges: the distinct subjects and objects
Vertices ==
    { edges[i].src : i \in 1..Len(edges) } \cup { edges[i].dst : i \in 1..Len(edges) }

NoError == [kind |-> "Ok", column |-> ""]

InitFrom(schemas, columnSets, tables) ==
    /\ start \in schemas
    /\ shapeModule \in {"shex", "shape"}
    /\ columns \in columnSets
    /\ edges \in tables
    /\ pc = "Built"
    /\ error = NoError
    /\ shape_tree = << >>
    /\ send_messages_iter = 0
    /\ v_prog_iter = 0
    /\ max_iterations = 0
    /\ iteration = 0
    /\ phase = "send"
    /\ send_level = << >>
    /\ v_prog_level = << >>
    /\ msg = << >>
    /\ aggregated = [v \in Vertices |-> NullList]
    /\ labels = [v \in Vertices |-> NullList]
    /\ result = {}
    /\ shapeIterator = Shape_iter(start)
    /\ returned = << >>

InitWith(columnSets, tables) == InitFrom(Schemas, columnSets, tables)

\* a well-formed edge table of up to MaxEdges rows
Init == InitWith({AllColumns}, Tables(MaxEdges))

\* any subset of the columns, up to MaxRows rows
InitCheck == InitWith(SUBSET AllColumns, Tables(MaxRows))

\* any generated shape or schema on a well-formed table of one row
InitTree == InitFrom(TreeSchemas, {AllColumns}, OneRowTables)

\* an iterator on a shape of the enum of src/shape.rs
InitIter == InitFrom(IterSchemas, {AllColumns}, {<< >>})

\* a shape of 255 to 257 levels on a well-formed table of one row
InitDeep == InitFrom(DeepSchemas, {AllColumns}, DeepTables)

(***************************************************************************)
(* PSchema::validate.                                                      *)
(***************************************************************************)
\* a faulty variant of check_field: a missing column is not reported
check_field_present_only(cols, rows, column) ==
    IF column \in cols /\ rows = 0
    THEN [kind |-> "NoData", column |-> column]
    ELSE NoError

\* a faulty variant of check_field: an empty column is not reported
check_field_schema_only(cols, rows, column) ==
    IF column \notin cols
    THEN [kind |-> "SchemaFieldNotFound", column |-> column]
    ELSE NoError

\* one `if .. is_none() .. else if .. len() == 0` of validate
check_field(cols, rows, column) ==
    IF column \notin cols
    THEN [kind |-> "SchemaFieldNotFound", column |-> column]
    ELSE IF rows = 0
    THEN [kind |-> "NoData", column |-> column]
    ELSE NoError

RECURSIVE check_fields(_, _, _)
\* a faulty variant of check_fields: the check of dtype is left out
check_fields_skip_dtype(cols, rows, names) ==
    IF names = << >> \/ Head(names) = "dtype" THEN NoError
    ELSE LET e == check_field(cols, rows, Head(names)) IN
         IF e # NoError THEN e ELSE check_fields(cols, rows, Tail(names))

\* the four checks in order; the first error is returned
check_fields(cols, rows, names) ==
    IF names = << >> THEN NoError
    ELSE LET e == check_field(cols, rows, Head(names)) IN
         IF e # NoError THEN e ELSE check_fields(cols, rows, Tail(names))

\* the input checks, then the shape tree, the two iterators (the v_prog one
\* advanced past the leaves) and the Pregel builder with its NULL labels
Validate ==
    /\ pc = "Built"
    /\ LET e == check_fields(columns, Len(edges), Columns) IN
       IF e # NoError
       THEN /\ pc' = "Failed"
            /\ error' = e
            /\ UNCHANGED << shape_tree, send_messages_iter, v_prog_iter,
                            max_iterations, labels >>
       ELSE \/ /\ iterations_overflows(ShapeTree_new(start))
               /\ pc' = "Panicked"
               /\ error' = NoError
               /\ shape_tree' = ShapeTree_new(start)
               /\ UNCHANGED << send_messages_iter, v_prog_iter,
                               max_iterations, labels >>
            \/ /\ pc' = "Running"
               /\ error' = NoError
               /\ shape_tree' = ShapeTree_new(start)
               /\ send_messages_iter' = 0
               /\ v_prog_iter' = 1
               /\ max_iterations' = iterations(ShapeTree_new(start))
               /\ labels' = [v \in Vertices |-> NullList]
    /\ UNCHANGED << start, shapeModule, columns, edges, iteration, phase,
                    send_level, v_prog_level, msg, aggregated, result >>
    /\ UNCHANGED << shapeIterator, returned >>

\* a faulty variant of NextLevel: the iterator starts over when exhausted
NextLevel_cycle(levels, drawn) ==
    IF levels = << >> THEN << >> ELSE levels[(drawn % Len(levels)) + 1]

\* Iterator::next on the levels: the level drawn, << >> when exhausted
NextLevel(levels, drawn) ==
    IF drawn < Len(levels) THEN levels[drawn + 1] ELSE << >>

\* a faulty variant of Advance: the iterator is not advanced by the call
Advance_stuck(levels, drawn) == drawn

Advance(levels, drawn) ==
    IF drawn < Len(levels) THEN drawn + 1 ELSE drawn

\* the send phase of a superstep: one message per triplet, to its subject
SendPhase ==
    /\ pc = "Running"
    /\ phase = "send"
    /\ iteration < max_iterations
    /\ LET nodes == NextLevel(shape_tree, send_messages_iter) IN
       /\ send_level' = nodes
       /\ msg' = [i \in 1..Len(edges) |->
                     send_messages(nodes, edges[i], labels[edges[i].dst])]
    /\ send_messages_iter' = Advance(shape_tree, send_messages_iter)
    /\ phase' = "aggregate"
    /\ UNCHANGED << start, shapeModule, columns, edges, pc, error, shape_tree,
                    v_prog_iter, max_iterations, iteration, v_prog_level,
                    aggregated, labels, result >>
    /\ UNCHANGED << shapeIterator, returned >>

RECURSIVE Received(_, _)
\* the messages of the rows whose subject is v, in row order
Received(v, i) ==
    IF i > Len(edges) THEN << >>
    ELSE (IF edges[i].src = v THEN << msg[i] >> ELSE << >>) \o Received(v, i + 1)

\* a faulty variant of AggregatePhase: the aggregated messages are stored in
\* the labels column as well
AggregatePhase_writes_labels ==
    /\ pc = "Running"
    /\ phase = "aggregate"
    /\ aggregated' = [v \in Vertices |-> aggregate_messages(Received(v, 1))]
    /\ labels' = aggregated'
    /\ phase' = "v_prog"
    /\ UNCHANGED << start, shapeModule, columns, edges, pc, error, shape_tree,
                    send_messages_iter, v_prog_iter, max_iterations, iteration,
                    send_level, v_prog_level, msg, result >>
    /\ UNCHANGED << shapeIterator, returned >>

\* the aggregate phase: group by receiver, then the left join to the vertices
AggregatePhase ==
    /\ pc = "Running"
    /\ phase = "aggregate"
    /\ aggregated' = [v \in Vertices |-> aggregate_messages(Received(v, 1))]
    /\ phase' = "v_prog"
    /\ UNCHANGED << start, shapeModule, columns, edges, pc, error, shape_tree,
                    send_messages_iter, v_prog_iter, max_iterations, iteration,
                    send_level, v_prog_level, msg, labels, result >>
    /\ UNCHANGED << shapeIterator, returned >>

\* the vertex-update phase: the labels column is the value of v_prog
VProgPhase ==
    /\ pc = "Running"
    /\ phase = "v_prog"
    /\ LET nodes == NextLevel(shape_tree, v_prog_iter) IN
       /\ v_prog_level' = nodes
       /\ labels' = [v \in Vertices |-> v_prog(nodes, shapeModule, aggregated[v])]
    /\ v_prog_iter' = Advance(shape_tree, v_prog_iter)
    /\ iteration' = iteration + 1
    /\ phase' = "send"
    /\ UNCHANGED << start, shapeModule, columns, edges, pc, error, shape_tree,
                    send_messages_iter, max_iterations, send_level, msg,
                    aggregated, result >>
    /\ UNCHANGED << shapeIterator, returned >>

\* a faulty variant of Collect: the filter on labels is left out
Collect_no_filter ==
    /\ pc = "Running"
    /\ phase = "send"
    /\ iteration = max_iterations
    /\ result' = { [id |-> v, labels |-> labels[v]] : v \in Vertices }
    /\ pc' = "Validated"
    /\ UNCHANGED << start, shapeModule, columns, edges, error, shape_tree,
                    send_messages_iter, v_prog_iter, max_iterations, iteration,
                    phase, send_level, v_prog_level, msg, aggregated, labels >>
    /\ UNCHANGED << shapeIterator, returned >>

\* pregel.run() returned: select (id, labels), filter labels.is_not_null()
Collect ==
    /\ pc = "Running"
    /\ phase = "send"
    /\ iteration = max_iterations
    /\ result' = { [id |-> v, labels |-> labels[v]] :
                       v \in { w \in Vertices : labels[w] # NullList } }
    /\ pc' = "Validated"
    /\ UNCHANGED << start, shapeModule, columns, edges, error, shape_tree,
                    send_messages_iter, v_prog_iter, max_iterations, iteration,
                    phase, send_level, v_prog_level, msg, aggregated, labels >>
    /\ UNCHANGED << shapeIterator, returned >>

(***************************************************************************)
(* The superstep loop as a function of the edge table: what pregel.run()   *)
(* computes with the three callbacks, for any number of supersteps.        *)
(***************************************************************************)
VerticesOf(tbl) ==
    { tbl[i].src : i \in 1..Len(tbl) } \cup { tbl[i].dst : i \in 1..Len(tbl) }

SentMessages(tbl, nodes, lbls) ==
    [i \in 1..Len(tbl) |-> send_messages(nodes, tbl[i], lbls[tbl[i].dst])]

RECURSIVE ReceivedBy(_, _, _, _)
\* the messages m of the rows of tbl whose subject is v, in row order
ReceivedBy(tbl, m, v, i) ==
    IF i > Len(tbl) THEN << >>
    ELSE (IF tbl[i].src = v THEN << m[i] >> ELSE << >>)
         \o ReceivedBy(tbl, m, v, i + 1)

\* one superstep: send, aggregate, vertex update
SuperstepLabels(tbl, sendNodes, vNodes, lbls) ==
    LET m == SentMessages(tbl, sendNodes, lbls) IN
    [v \in VerticesOf(tbl) |->
        v_prog(vNodes, shapeModule, aggregate_messages(ReceivedBy(tbl, m, v, 1)))]

RECURSIVE RunSupersteps(_, _, _, _, _)
\* supersteps done + 1 .. n; before superstep j the send iterator has
\* yielded j - 1 levels and the v_prog iterator j (the leaves are skipped)
RunSupersteps(tbl, levels, done, n, lbls) ==
    IF done >= n THEN lbls
    ELSE RunSupersteps(tbl, levels, done + 1, n,
             SuperstepLabels(tbl, NextLevel(levels, done),
                             NextLevel(levels, done + 1), lbls))

\* the labels column after n supersteps from the NULL labels
Pregel_run(tbl, levels, n) ==
    RunSupersteps(tbl, levels, 0, n, [v \in VerticesOf(tbl) |-> NullList])

\* ShapeIterator::next: self.next is the leaves of the walk; None when curr
\* holds the shape itself, otherwise curr becomes the level and is returned
ShapeIterator_next ==
    /\ Len(returned) < MaxCalls
    /\ LET leaves == Visit(<< shapeIterator.shape >>, shapeIterator.curr) IN
       IF contains(shapeIterator.curr, shapeIterator.shape)
       THEN /\ shapeIterator' = [shapeIterator EXCEPT !.next = leaves]
            /\ returned' = Append(returned, None)
       ELSE /\ shapeIterator' =
                   [shapeIterator EXCEPT !.next = leaves, !.curr = leaves]
            /\ returned' = Append(returned, Some(leaves))
    /\ UNCHANGED pschema_vars

NextIter == ShapeIterator_next

Next == Validate \/ SendPhase \/ AggregatePhase \/ VProgPhase \/ Collect

Spec == Init /\ [][Next]_vars

SpecCheck == InitCheck /\ [][Next]_vars

SpecTree == InitTree /\ [][Next]_vars

SpecDeep == InitDeep /\ [][Next]_vars

SpecIter == InitIter /\ [][NextIter]_vars

(***************************************************************************)
(* Vocabulary of the properties.                                           *)
(***************************************************************************)
Range(seq) == { seq[i] : i \in 1..Len(seq) }

RECURSIVE Nodes(_)
\* every shape node of a schema
Nodes(s) == {s} \cup UNION { Nodes(c) : c \in Range(Children(s)) }

SchemaLabels(s) == { get_label(n) : n \in Nodes(s) }

RowsOf(v) == { i \in 1..Len(edges) : edges[i].src = v }

HasEdge(v, p, o) ==
    \E i \in RowsOf(v) : edges[i].property_id = p /\ edges[i].dst = o

RECURSIVE CountRows(_, _, _, _)
\* the rows (v, p, o) from row i on
CountRows(v, p, o, i) ==
    IF i > Len(edges) THEN 0
    ELSE (IF edges[i].src = v /\ edges[i].property_id = p /\ edges[i].dst = o
          THEN 1 ELSE 0) + CountRows(v, p, o, i + 1)

RECURSIVE Conforms(_, _)
\* the declarative reading of a shape on a vertex (section 3 of the spec)
Conforms(s, v) ==
    CASE s.kind = "TripleConstraint" -> HasEdge(v, s.predicate, s.object)
      [] s.kind = "ShapeLiteral" ->
             \E i \in RowsOf(v) : /\ edges[i].property_id = s.predicate
                                  /\ edges[i].dtype = s.dtype
      [] s.kind = "ShapeReference" ->
             \E i \in RowsOf(v) : /\ edges[i].property_id = s.predicate
                                  /\ Conforms(s.reference, edges[i].dst)
      [] s.kind = "ShapeComposite" ->
             \A c \in Range(s.shapes) : Conforms(c, v)
      [] s.kind = "ShapeOr" ->
             \E c \in Range(s.shapes) : Conforms(c, v)
      [] s.kind = "Cardinality" ->
             LET n == IF s.shape.kind = "TripleConstraint"
                      THEN CountRows(v, s.shape.predicate, s.shape.object, 1)
                      ELSE IF Conforms(s.shape, v) THEN 1 ELSE 0
             IN BoundMin(s.min, n) /\ BoundMax(s.max, n)

InResult(v) == \E r \in result : r.id = v

\* a superstep has ended (or validate has) and the labels are those it wrote
AfterSuperstep == pc \in {"Running", "Validated"} /\ phase = "send" /\ iteration > 0

IsSuffix(t, seq) ==
    /\ Len(t) <= Len(seq)
    /\ \A i \in 1..Len(t) : seq[Len(seq) - Len(t) + i] = t[i]

\* nothing of the supersteps has happened
NoSuperstepRun ==
    /\ iteration = 0
    /\ send_messages_iter = 0
    /\ v_prog_iter = 0
    /\ send_level = << >>
    /\ v_prog_level = << >>
    /\ msg = << >>
    /\ \A v \in Vertices : labels[v] = NullList /\ aggregated[v] = NullList
    /\ result = {}

MissingColumns == AllColumns \ columns

FirstMissing ==
    Columns[CHOOSE i \in 1..Len(Columns) :
                /\ Columns[i] \notin columns
                /\ \A j \in 1..(i - 1) : Columns[j] \in columns]

C2_EmptyTable ==
    /\ (columns = AllColumns /\ Len(edges) = 0 /\ pc # "Built") =>
           /\ pc = "Failed"
           /\ error.kind = "NoData"
           /\ error.column \in AllColumns
           /\ NoSuperstepRun
    /\ (pc \in {"Running", "Validated"}) => Len(edges) > 0

\* validate has failed on the empty table with all four columns
C2_Witness ==
    /\ pc = "Failed"
    /\ columns = AllColumns
    /\ Len(edges) = 0
    /\ error = [kind |-> "NoData", column |-> "src"]

(***************************************************************************)
(* C3.  As stated: labels are monotone across supersteps; a label a vertex *)
(* carries is still carried after the next step.                           *)
(***************************************************************************)
C3_MonotoneAsStated ==
    [][\A v \in Vertices : \A l \in Range(labels[v]) : IsIn(l, labels'[v])]_vars

(***************************************************************************)
(* C3, amended.  The vertex-update phase folds from the list of messages   *)
(* the vertex received in this superstep: after a superstep the labels of  *)
(* a vertex are that message list, preceded only by labels of the          *)
(* ShapeComposite / ShapeOr / Cardinality nodes of the level drawn; the    *)
(* fold removes no message.  Labels of earlier supersteps are not kept.    *)
(***************************************************************************)
C3_FoldFromMessages ==
    AfterSuperstep =>
        \A v \in Vertices :
            /\ IsSuffix(aggregated[v], labels[v])
            /\ \A i \in 1..(Len(labels[v]) - Len(aggregated[v])) :
                   \E n \in Range(v_prog_level) :
                       IsNary(n) /\ labels[v][i] = get_label(n)

\* a vertex-update phase has added a label in front of the messages
C3_Witness ==
    /\ AfterSuperstep
    /\ \E v \in Vertices :
           aggregated[v] # NullList /\ Len(labels[v]) > Len(aggregated[v])

(***************************************************************************)
(* C4.  Completeness of the conjunction: when validate finishes, a vertex  *)
(* on which every child of a ShapeComposite node matches carries the       *)
(* node's label, at any depth and for children of any variant.             *)
(***************************************************************************)
C4_Completeness ==
    pc = "Validated" =>
        \A a \in Nodes(start) : a.kind = "ShapeComposite" =>
            \A v \in Vertices : Conforms(a, v) => IsIn(a.label, labels[v])

(***************************************************************************)
(* C5.  Soundness of the conjunction: a vertex that carries the label of a *)
(* ShapeComposite node carries the label of every child of that node.      *)
(***************************************************************************)
C5_Soundness ==
    \A a \in Nodes(start) : a.kind = "ShapeComposite" =>
        \A v \in Vertices : IsIn(a.label, labels[v]) =>
            \A c \in Range(a.shapes) : IsIn(get_label(c), labels[v])

(***************************************************************************)
(* C6.  For a schema that is a single TripleConstraint, after validate a   *)
(* vertex carries the label iff the table has an edge (v, predicate,       *)
(* object), and exactly those vertices are rows of the result.             *)
(***************************************************************************)
C6_SingleTriple ==
    (start.kind = "TripleConstraint" /\ pc = "Validated") =>
        \A v \in Vertices :
            /\ IsIn(start.label, labels[v]) <=> HasEdge(v, start.predicate, start.object)
            /\ InResult(v) <=> HasEdge(v, start.predicate, start.object)
            /\ \A r \in result : r.id = v => r.labels = labels[v]

\* a single-constraint run ended with a labelled vertex in the result and a
\* subject of other edges left out of it
C6_Witness ==
    /\ start.kind = "TripleConstraint"
    /\ pc = "Validated"
    /\ \E v \in Vertices : InResult(v) /\ IsIn(start.label, labels[v])
    /\ \E w \in Vertices : RowsOf(w) # {} /\ ~InResult(w)

(***************************************************************************)
(* C7.  A ShapeReference label is sent to v in a superstep only for an     *)
(* edge (v, predicate, u) whose object u carries the inner label from the  *)
(* superstep before, so never in superstep 0.  With ShapeReference(1, 19,  *)
(* TC(2, 17, 145)) and edges (80,19,84), (84,17,145): labels(84) = [2]     *)
(* after superstep 0, labels(80) = [1] after superstep 1, and 145 never    *)
(* has a label.                                                            *)
(***************************************************************************)
S3Edges ==
    << Edge(TimBernersLee, BirthPlace, London, "Entity"),
       Edge(London, Country, UnitedKingdom, "Entity") >>

C7_Reference ==
    /\ (pc = "Running" /\ phase \in {"aggregate", "v_prog"}) =>
           \A r \in Nodes(start) : r.kind = "ShapeReference" =>
               \A i \in 1..Len(edges) : msg[i] = r.label =>
                   /\ iteration > 0
                   /\ edges[i].property_id = r.predicate
                   /\ IsIn(get_label(r.reference), labels[edges[i].dst])
    /\ (start = ReferenceSchema /\ edges = S3Edges) =>
           /\ labels[UnitedKingdom] = NullList
           /\ (AfterSuperstep /\ iteration = 1) =>
                  labels[London] = << 2 >> /\ labels[TimBernersLee] = NullList
           /\ (AfterSuperstep /\ iteration = 2) => labels[TimBernersLee] = << 1 >>
           /\ pc = "Validated" => iteration = 2

\* the scenario has run its two supersteps
C7_Witness ==
    /\ start = ReferenceSchema
    /\ edges = S3Edges
    /\ pc = "Validated"
    /\ labels[TimBernersLee] = << 1 >>

(***************************************************************************)
(* C8.  For ShapeComposite(1, [TC(2, instanceOf, Human), Cardinality(TC(3, *)
(* awardReceived, Award), Inclusive(0), Inclusive(1))]), after validate a  *)
(* vertex with an instanceOf-Human edge carries label 1 iff it has at most *)
(* one awardReceived-Award edge.                                           *)
(***************************************************************************)
C8_Optional ==
    (start = OptionalSchema /\ pc = "Validated") =>
        \A v \in Vertices : HasEdge(v, InstanceOf, Human) =>
            (IsIn(1, labels[v]) <=> CountRows(v, AwardReceived, Award, 1) <= 1)

(***************************************************************************)
(* C9.  The vertex-update phase appends the label of a ShapeOr iff some    *)
(* child's label is among the messages the vertex received.  With          *)
(* ShapeOr(1, [TC(2,31,5), TC(3,31,11448906)]) and edges (80,31,5),        *)
(* (3320352,31,11448906), both vertices end with label 1.                  *)
(***************************************************************************)
S5Edges ==
    << Edge(TimBernersLee, InstanceOf, Human, "Entity"),
       Edge(Award, InstanceOf, ScienceAward, "Entity") >>

C10_LabelUniverse ==
    /\ \A v \in Vertices :
           /\ Range(labels[v]) \subseteq SchemaLabels(start)
           /\ Range(aggregated[v]) \subseteq SchemaLabels(start)
    /\ \A r \in result : Range(r.labels) \subseteq SchemaLabels(start)

\* a vertex carries two different labels of the schema
C10_Witness ==
    /\ pc = "Validated"
    /\ \E v \in Vertices : \E i, j \in 1..Len(labels[v]) : labels[v][i] # labels[v][j]

(***************************************************************************)
(* C11.  As stated: after iterations(tree) supersteps the labelling is a   *)
(* fixpoint; one further superstep leaves every vertex's labels as they    *)
(* are.                                                                    *)
(***************************************************************************)
FurtherLabels ==
    SuperstepLabels(edges, NextLevel(shape_tree, send_messages_iter),
                    NextLevel(shape_tree, v_prog_iter), labels)

C11_FixpointAsStated ==
    pc = "Validated" => \A v \in Vertices : FurtherLabels[v] = labels[v]

(***************************************************************************)
(* C11, amended.  After the iterations(tree) supersteps of validate, one   *)
(* further superstep adds no label to any vertex, but the labelling is not *)
(* a fixpoint: the further superstep sends only NULL messages and leaves   *)
(* every vertex with NULL labels.  The v_prog iterator is exhausted by     *)
(* then; the send iterator is exhausted iff the tree has no ShapeComposite,*)
(* ShapeOr or Cardinality node (otherwise the root level is left).         *)
(***************************************************************************)
C11_FurtherSuperstep ==
    pc = "Validated" =>
        /\ \A v \in Vertices :
               /\ Range(FurtherLabels[v]) \subseteq Range(labels[v])
               /\ FurtherLabels[v] = NullList
        /\ \A i \in 1..Len(edges) :
               SentMessages(edges, NextLevel(shape_tree, send_messages_iter),
                            labels)[i] = NULL
        /\ NextLevel(shape_tree, v_prog_iter) = << >>
        /\ (NextLevel(shape_tree, send_messages_iter) = << >>)
               <=> ~contains_nary(shape_tree)

\* validate ended with a labelled vertex, which a further superstep clears
C11_Witness ==
    /\ pc = "Validated"
    /\ \E v \in Vertices : labels[v] # NullList /\ FurtherLabels[v] = NullList

(***************************************************************************)
(* C12.  As stated: for a shape tree of d levels and every k > 0, d + k    *)
(* supersteps end with the same labels on every vertex as d supersteps.    *)
(***************************************************************************)
C12_ExtraSuperstepsAsStated ==
    pc = "Validated" =>
        \A k \in 1..MaxExtra :
            Pregel_run(edges, shape_tree, Len(shape_tree) + k)
                = Pregel_run(edges, shape_tree, Len(shape_tree))

(***************************************************************************)
(* C12, amended.  For a shape tree of d levels and every k > 0, d + k      *)
(* supersteps leave every vertex with NULL labels.  That is the outcome of *)
(* d supersteps only for a tree with a ShapeComposite, ShapeOr or          *)
(* Cardinality node, for which validate runs d - 1 supersteps; for a tree  *)
(* without one, validate runs d supersteps and its labels are cleared by   *)
(* any further superstep.                                                  *)
(***************************************************************************)
C12_ExtraSupersteps ==
    pc = "Validated" =>
        LET d == Len(shape_tree) IN
        /\ labels = Pregel_run(edges, shape_tree, max_iterations)
        /\ \A k \in 1..MaxExtra : \A v \in Vertices :
               Pregel_run(edges, shape_tree, d + k)[v] = NullList
        /\ contains_nary(shape_tree) =>
               /\ max_iterations = d - 1
               /\ \A v \in Vertices : Pregel_run(edges, shape_tree, d)[v] = NullList
        /\ ~contains_nary(shape_tree) => max_iterations = d

\* a tree without n-ary nodes whose d supersteps labelled a vertex
C12_Witness ==
    /\ pc = "Validated"
    /\ ~contains_nary(shape_tree)
    /\ \E v \in Vertices :
           /\ Pregel_run(edges, shape_tree, Len(shape_tree))[v] # NullList
           /\ Pregel_run(edges, shape_tree, Len(shape_tree) + 1)[v] = NullList

(***************************************************************************)
(* Vocabulary of the level schedule, read off the fields of a shape.       *)
(***************************************************************************)
RECURSIVE Contained(_)
\* the shapes a shape contains, directly or transitively
Contained(s) ==
    CASE s.kind = "ShapeReference" -> {s.reference} \cup Contained(s.reference)
      [] s.kind = "Cardinality"    -> {s.shape} \cup Contained(s.shape)
      [] s.kind \in {"ShapeComposite", "ShapeOr"} ->
             UNION { {s.shapes[i]} \cup Contained(s.shapes[i]) :
                         i \in 1..Len(s.shapes) }
      [] OTHER -> {}

AllNodes(s) == {s} \cup Contained(s)

Max(a, b) == IF a >= b THEN a ELSE b

RECURSIVE MaxHeight(_, _)
RECURSIVE Height(_)
\* the nodes on the longest path from the shape to a leaf
Height(s) ==
    CASE s.kind = "ShapeReference" -> 1 + Height(s.reference)
      [] s.kind = "Cardinality"    -> 1 + Height(s.shape)
      [] s.kind \in {"ShapeComposite", "ShapeOr"} -> 1 + MaxHeight(s.shapes, 1)
      [] OTHER -> 1

MaxHeight(shapes, i) ==
    IF i > Len(shapes) THEN 0
    ELSE Max(Height(shapes[i]), MaxHeight(shapes, i + 1))

\* the schedule has been built
Scheduled == pc \in {"Running", "Validated"}

LevelsOf(n) == { k \in 1..Len(shape_tree) : n \in Range(shape_tree[k]) }

(***************************************************************************)
(* C13.  In the schedule built by ShapeTree::new, for every shape s placed *)
(* at level k, every shape that contains s directly or transitively is     *)
(* placed at some level k' > k.                                            *)
(***************************************************************************)
C13_LevelOrder ==
    Scheduled =>
        \A k \in 1..Len(shape_tree) : \A s \in Range(shape_tree[k]) :
            \A a \in AllNodes(start) : s \in Contained(a) =>
                \E k2 \in (k + 1)..Len(shape_tree) : a \in Range(shape_tree[k2])

\* a schedule of three levels with two nodes in its middle level
C13_Witness ==
    /\ Scheduled
    /\ Len(shape_tree) = 3
    /\ Len(shape_tree[2]) = 2
    /\ shape_tree[3] = << start >>

(***************************************************************************)
(* C14.  As stated: ShapeTree::iterations() returns the number of levels   *)
(* of the schedule (the height of the shape), whether or not the shape has *)
(* ShapeComposite or Cardinality nodes.                                    *)
(***************************************************************************)
C14_IterationsAsStated ==
    Scheduled =>
        max_iterations = Len(shape_tree) /\ max_iterations = Height(start)

(***************************************************************************)
(* C14, amended.  ShapeTree::iterations() returns the number of levels     *)
(* (the height of the shape) when no node of the shape is a ShapeComposite *)
(* or a Cardinality, and the number of levels minus one when some node is; *)
(* validate runs exactly that many supersteps.                             *)
(***************************************************************************)
C14_Iterations ==
    /\ Scheduled =>
           max_iterations =
               IF \E n \in AllNodes(start) :
                      n.kind \in {"ShapeComposite", "ShapeOr", "Cardinality"}
               THEN Height(start) - 1
               ELSE Height(start)
    /\ pc = "Validated" => iteration = max_iterations

\* a Cardinality over a leaf and no conjunction: two levels, one superstep
C14_Witness ==
    /\ pc = "Validated"
    /\ start.kind = "Cardinality"
    /\ Len(shape_tree) = 2
    /\ iteration = 1

(***************************************************************************)
(* C15.  The number of levels of ShapeTree::new(s) is the number of nodes  *)
(* on the longest root-to-leaf path of s, no level is empty, and every     *)
(* node of s appears in exactly one level (and nothing else does).  The    *)
(* schemas of the tests have 1, 2, 3, 3 and 3 levels.                      *)
(***************************************************************************)
C15_Levels ==
    Scheduled =>
        /\ Len(shape_tree) = Height(start)
        /\ \A k \in 1..Len(shape_tree) :
               /\ shape_tree[k] # << >>
               /\ Range(shape_tree[k]) \subseteq AllNodes(start)
               /\ \A i, j \in 1..Len(shape_tree[k]) :
                      shape_tree[k][i] = shape_tree[k][j] => i = j
        /\ \A n \in AllNodes(start) : \E k \in 1..Len(shape_tree) : LevelsOf(n) = {k}
        /\ start = SimpleSchema => Len(shape_tree) = 1
        /\ start = PaperSchema => Len(shape_tree) = 2
        /\ start = ComplexSchema => Len(shape_tree) = 3
        /\ start = ChainSchema => Len(shape_tree) = 3
        /\ start = OptionalSchema => Len(shape_tree) = 3

\* the schedule of optional_schema: the Cardinality's inner constraint alone
\* at the bottom, the conjunction alone at the top
C15_Witness ==
    /\ Scheduled
    /\ start = OptionalSchema
    /\ Len(shape_tree) = 3
    /\ Len(shape_tree[1]) = 1
    /\ Len(shape_tree[2]) = 2

(***************************************************************************)
(* C16.  As stated: a successful validate returns the edge subset, one row *)
(* (subject, predicate, object, labels) per edge whose subject has a       *)
(* non-empty labels list.                                                  *)
(***************************************************************************)
LabelledRows == { i \in 1..Len(edges) : labels[edges[i].src] # NullList }

C16_EdgeSubsetAsStated ==
    pc = "Validated" =>
        result = { [subject |-> edges[i].src, predicate |-> edges[i].property_id,
                    object |-> edges[i].dst, labels |-> labels[edges[i].src]] :
                       i \in LabelledRows }

(***************************************************************************)
(* C16, amended.  A successful validate returns the vertex subset: one row *)
(* (id, labels) per vertex whose labels list is not NULL, and no other     *)
(* row; every such vertex is the subject of an edge, whatever the number   *)
(* of its edges.                                                           *)
(***************************************************************************)
C16_VertexSubset ==
    /\ pc # "Validated" => result = {}
    /\ pc = "Validated" =>
           /\ \A v \in Vertices : labels[v] # NullList <=> InResult(v)
           /\ \A r \in result :
                  /\ DOMAIN r = {"id", "labels"}
                  /\ r.id \in Vertices
                  /\ r.labels = labels[r.id]
                  /\ r.labels # NullList
                  /\ RowsOf(r.id) # {}
           /\ \A r1, r2 \in result : r1.id = r2.id => r1 = r2

\* one row for a labelled vertex with two edges, none for the other vertices
C16_Witness ==
    /\ pc = "Validated"
    /\ \E r \in result : result = {r} /\ \E i, j \in RowsOf(r.id) : i # j
    /\ \E v \in Vertices : labels[v] = NullList

(***************************************************************************)
(* C17.  As stated: the dtype column is optional; a table with rows and    *)
(* the columns src, dst and property_id but no dtype passes the input      *)
(* check and validate goes on to the supersteps.                           *)
(***************************************************************************)
NoDtype == columns = AllColumns \ {"dtype"} /\ Len(edges) > 0

C17_DtypeOptionalAsStated ==
    (NoDtype /\ pc # "Built") => (Scheduled /\ error = NoError)

(***************************************************************************)
(* C17, amended.  The dtype column is required: a table with rows and the  *)
(* columns src, dst and property_id but no dtype fails the input check     *)
(* with the schema-field-missing error for dtype and no superstep is run;  *)
(* validate reaches the supersteps only with all four columns.             *)
(***************************************************************************)
C17_DtypeRequired ==
    /\ (NoDtype /\ pc # "Built") =>
           /\ pc = "Failed"
           /\ error = [kind |-> "SchemaFieldNotFound", column |-> "dtype"]
           /\ NoSuperstepRun
    /\ Scheduled => columns = AllColumns

\* validate has failed on a table with a row that lacks dtype only
C17_Witness ==
    /\ NoDtype
    /\ pc = "Failed"
    /\ error = [kind |-> "SchemaFieldNotFound", column |-> "dtype"]

(***************************************************************************)
(* C18.  When two shape nodes of the schema share a label, building the    *)
(* schedule fails with a DuplicateLabel error before any superstep runs;   *)
(* no schedule holds two nodes with the same label.                        *)
(***************************************************************************)
HasLabel(n) == n.kind # "Cardinality"

HasDuplicateLabel(s) ==
    \E a, b \in AllNodes(s) :
        a # b /\ HasLabel(a) /\ HasLabel(b) /\ a.label = b.label

C18_DuplicateLabel ==
    /\ (HasDuplicateLabel(start) /\ Len(edges) > 0 /\ pc # "Built") =>
           /\ pc = "Failed"
           /\ error.kind = "DuplicateLabel"
           /\ NoSuperstepRun
    /\ Scheduled =>
           \A k1, k2 \in 1..Len(shape_tree) :
               \A a \in Range(shape_tree[k1]) : \A b \in Range(shape_tree[k2]) :
                   (HasLabel(a) /\ HasLabel(b) /\ a.label = b.label) => a = b

(***************************************************************************)
(* C19.  The outcome of validate does not depend on the order of the edge  *)
(* rows: on every permutation of the table, with the same schema, every    *)
(* vertex ends with the same multiset of labels.                           *)
(***************************************************************************)
Perms(n) == { f \in [1..n -> 1..n] : \A i, j \in 1..n : f[i] = f[j] => i = j }

Permuted(tbl, f) == [i \in 1..Len(tbl) |-> tbl[f[i]]]

RECURSIVE Count(_, _)
Count(x, seq) ==
    IF seq = << >> THEN 0
    ELSE (IF Head(seq) = x THEN 1 ELSE 0) + Count(x, Tail(seq))

SameBag(a, b) == \A x \in Range(a) \cup Range(b) : Count(x, a) = Count(x, b)

C19_RowOrder ==
    pc = "Validated" =>
        \A f \in Perms(Len(edges)) :
            LET r == Pregel_run(Permuted(edges, f), shape_tree, max_iterations) IN
            \A v \in Vertices : SameBag(r[v], labels[v])

\* a vertex whose labels come in another order on a permutation of the rows
C19_Witness ==
    /\ pc = "Validated"
    /\ \E f \in Perms(Len(edges)) : \E v \in Vertices :
           LET r == Pregel_run(Permuted(edges, f), shape_tree, max_iterations) IN
           r[v] # labels[v] /\ SameBag(r[v], labels[v])

(***************************************************************************)
(* C20.  As stated: when an edge matches several leaf-style shapes of the  *)
(* level the send phase drew, its message is the label of the first        *)
(* matching shape in the level's order.                                    *)
(***************************************************************************)
\* the condition of the `when` of a leaf-style node on row i; the labels are
\* those the send phase read
Matches(node, i) ==
    CASE node.kind = "TripleConstraint" ->
             edges[i].dst = node.object /\ edges[i].property_id = node.predicate
      [] node.kind = "ShapeReference" ->
             /\ edges[i].property_id = node.predicate
             /\ IsIn(get_label(node.reference), labels[edges[i].dst])
      [] node.kind = "ShapeLiteral" ->
             /\ edges[i].dtype = node.dtype
             /\ edges[i].dst = edges[i].src
             /\ edges[i].property_id = node.predicate
      [] OTHER -> FALSE

Matching(i) == { j \in 1..Len(send_level) : Matches(send_level[j], i) }

Sent == pc = "Running" /\ phase \in {"aggregate", "v_prog"}

C20_FirstMatchAsStated ==
    Sent =>
        \A i \in 1..Len(edges) : \A j \in Matching(i) :
            (\A j2 \in Matching(i) : j <= j2) => msg[i] = send_level[j].label

(***************************************************************************)
(* C20, amended.  When an edge matches several leaf-style shapes of the    *)
(* level the send phase drew, its message is the label of the last         *)
(* matching shape in the level's order (each node's `when` wraps the       *)
(* expression of the nodes before it); an edge that matches none sends     *)
(* NULL.                                                                   *)
(***************************************************************************)
C20_LastMatch ==
    Sent =>
        \A i \in 1..Len(edges) :
            /\ Matching(i) = {} => msg[i] = NULL
            /\ \A j \in Matching(i) :
                   (\A j2 \in Matching(i) : j >= j2) => msg[i] = send_level[j].label

\* an edge matches two nodes of the level with different labels
C20_Witness ==
    /\ Sent
    /\ \E i \in 1..Len(edges) : \E j1, j2 \in Matching(i) :
           /\ j1 < j2
           /\ send_level[j1].label # send_level[j2].label
           /\ msg[i] = send_level[j2].label

(***************************************************************************)
(* C21.  Cardinality::validate appends the label exactly when the count    *)
(* satisfies both bounds, the count being the total number of occurrences  *)
(* of the inner shape's label among the messages the vertex received       *)
(* (Inclusive(n): count >= n or count <= n; Exclusive(n): count > n or     *)
(* count < n); a vertex with zero occurrences satisfies Inclusive(0).      *)
(***************************************************************************)
\* the level the vertex-update phase drew has one ShapeComposite, ShapeOr or
\* Cardinality node, and it is c
OnlyNary(c) ==
    \A n \in Range(v_prog_level) : IsNary(n) => n = c

C21_CardinalityCount ==
    AfterSuperstep =>
        \A c \in Range(v_prog_level) : (c.kind = "Cardinality" /\ OnlyNary(c)) =>
            \A v \in Vertices :
                LET count == Count(get_label(c.shape), aggregated[v]) IN
                /\ labels[v] \in { aggregated[v],
                                    << get_label(c.shape) >> \o aggregated[v] }
                /\ (labels[v] = << get_label(c.shape) >> \o aggregated[v])
                       <=> (BoundMin(c.min, count) /\ BoundMax(c.max, count))

(***************************************************************************)
(* C22.  As stated: the first level of the schedule holds every childless  *)
(* shape (TripleConstraint, ShapeLiteral) of the tree, whatever its depth  *)
(* below the root, and every shape of a later level has all its direct     *)
(* children in earlier levels.                                             *)
(***************************************************************************)
Direct(s) ==
    CASE s.kind = "ShapeReference" -> {s.reference}
      [] s.kind = "Cardinality"    -> {s.shape}
      [] s.kind \in {"ShapeComposite", "ShapeOr"} -> Range(s.shapes)
      [] OTHER -> {}

Childless(s) == s.kind \in {"TripleConstraint", "ShapeLiteral"}

C22_LeavesFirstAsStated ==
    Scheduled =>
        /\ \A n \in AllNodes(start) : Childless(n) => n \in Range(shape_tree[1])
        /\ \A k \in 1..Len(shape_tree) : \A n \in Range(shape_tree[k]) :
               \A c \in Direct(n) :
                   \E k2 \in 1..(k - 1) : c \in Range(shape_tree[k2])

(***************************************************************************)
(* C22, amended.  The levels are the depths of the tree, deepest first:    *)
(* the first level holds childless shapes only, namely those of the        *)
(* greatest depth; a childless shape nearer the root is in the level of    *)
(* its own depth, next to shapes that have children.  The root alone is    *)
(* the last level, and every shape has all its direct children in the      *)
(* level just before its own.                                              *)
(***************************************************************************)
C22_LevelsByDepth ==
    Scheduled =>
        /\ \A n \in Range(shape_tree[1]) : Childless(n)
        /\ shape_tree[Len(shape_tree)] = << start >>
        /\ \A k \in 1..Len(shape_tree) : \A n \in Range(shape_tree[k]) :
               \A c \in Direct(n) : k > 1 /\ c \in Range(shape_tree[k - 1])

\* complex_schema: the TripleConstraint and the ShapeLiteral under the root
\* share the second level with the ShapeReference
C22_Witness ==
    /\ Scheduled
    /\ start = ComplexSchema
    /\ Len(shape_tree) = 3
    /\ \E i, j \in 1..Len(shape_tree[2]) :
           Childless(shape_tree[2][i]) /\ ~Childless(shape_tree[2][j])

(***************************************************************************)
(* C23.  As stated: the two level iterators advance in lockstep; in        *)
(* superstep i (from 0) the send phase draws level i and the vertex-update *)
(* phase level i + 1, each phase draws exactly one level per superstep,    *)
(* and the levels are drawn in increasing order.  (Superstep i has ended   *)
(* when iteration = i + 1; shape_tree[k] is level k - 1.)                  *)
(***************************************************************************)
C23_LockstepAsStated ==
    AfterSuperstep =>
        /\ send_level = shape_tree[iteration]
        /\ iteration + 1 <= Len(shape_tree)
        /\ v_prog_level = shape_tree[iteration + 1]

(***************************************************************************)
(* C23, amended.  In superstep i the send phase draws level i and the      *)
(* vertex-update phase draws level i + 1 when the tree has one; each       *)
(* iterator yields at most one level per superstep, in increasing order.   *)
(* In the last superstep of a tree without ShapeComposite, ShapeOr or      *)
(* Cardinality nodes the vertex-update iterator is exhausted and draws no  *)
(* level.                                                                  *)
(***************************************************************************)
C23_Lockstep ==
    /\ AfterSuperstep =>
           /\ iteration <= Len(shape_tree)
           /\ send_level = shape_tree[iteration]
           /\ send_messages_iter = iteration
           /\ v_prog_level = IF iteration + 1 <= Len(shape_tree)
                             THEN shape_tree[iteration + 1] ELSE << >>
           /\ v_prog_iter = IF iteration + 1 <= Len(shape_tree)
                            THEN iteration + 1 ELSE Len(shape_tree)
           /\ (iteration + 1 > Len(shape_tree)) <=>
                  (~contains_nary(shape_tree) /\ iteration = max_iterations)
    /\ (pc = "Running" /\ phase \in {"aggregate", "v_prog"}) =>
           /\ send_level = shape_tree[iteration + 1]
           /\ send_messages_iter = iteration + 1

\* the second superstep of a tree of three levels has ended
C23_Witness ==
    /\ AfterSuperstep
    /\ iteration = 2
    /\ Len(shape_tree) = 3
    /\ send_level = shape_tree[2]
    /\ v_prog_level = shape_tree[3]

(***************************************************************************)
(* C24.  Within the iterations() supersteps validate runs, every level     *)
(* with a TripleConstraint, ShapeReference or ShapeLiteral is drawn by the *)
(* send phase and every level with a ShapeComposite or Cardinality by the  *)
(* vertex-update phase, also when the root is a ShapeReference above a     *)
(* ShapeComposite or Cardinality.                                          *)
(***************************************************************************)
SendStyle(n) == n.kind \in {"TripleConstraint", "ShapeReference", "ShapeLiteral"}

C24_EveryLevelDrawn ==
    pc = "Validated" =>
        \A k \in 1..Len(shape_tree) :
            /\ (\E n \in Range(shape_tree[k]) : SendStyle(n)) =>
                   k <= send_messages_iter
            /\ (\E n \in Range(shape_tree[k]) : IsNary(n)) =>
                   (1 < k /\ k <= v_prog_iter)

(***************************************************************************)
(* C25.  The aggregate phase gives each vertex the list of all non-NULL    *)
(* messages sent to it in the superstep, duplicates kept: a label sent by  *)
(* n rows of the vertex is n times in the list, and NULL never is.         *)
(***************************************************************************)
RECURSIVE CountSent(_, _, _)
\* the rows of subject v, from row i on, whose message is x
CountSent(v, x, i) ==
    IF i > Len(edges) THEN 0
    ELSE (IF edges[i].src = v /\ msg[i] = x THEN 1 ELSE 0) + CountSent(v, x, i + 1)

Aggregated == pc = "Running" /\ phase = "v_prog"

C25_AggregateKeepsDuplicates ==
    Aggregated =>
        \A v \in Vertices :
            /\ ~IsIn(NULL, aggregated[v])
            /\ \A i \in RowsOf(v) : msg[i] # NULL =>
                   Count(msg[i], aggregated[v]) = CountSent(v, msg[i], 1)
            /\ \A x \in Range(aggregated[v]) : CountSent(v, x, 1) > 0

\* a vertex received one label twice and a NULL message
C25_Witness ==
    /\ Aggregated
    /\ \E v \in Vertices :
           /\ Len(aggregated[v]) = 2
           /\ aggregated[v][1] = aggregated[v][2]
           /\ CountSent(v, NULL, 1) = 1

(***************************************************************************)
(* C26.  ShapeComposite::validate tolerates duplicate messages: whether    *)
(* the composite's label is appended depends only on the set of labels the *)
(* vertex received; it is appended iff every child's label is among them,  *)
(* however many times each was received.                                   *)
(***************************************************************************)
C26_CompositeOnSet ==
    AfterSuperstep =>
        \A c \in Range(v_prog_level) : (c.kind = "ShapeComposite" /\ OnlyNary(c)) =>
            \A v \in Vertices :
                /\ labels[v] \in { aggregated[v], << c.label >> \o aggregated[v] }
                /\ (labels[v] = << c.label >> \o aggregated[v])
                       <=> \A i \in 1..Len(c.shapes) :
                               IsIn(get_label(c.shapes[i]), aggregated[v])

(***************************************************************************)
(* C27.  As stated: ShapeLiteral(label, predicate, datatype) is a          *)
(* TripleConstraint on the dtype column; an edge produces the label iff    *)
(* its predicate is the shape's and its dtype is the shape's datatype,     *)
(* whatever its subject and object.  (Read on a level whose last node is   *)
(* the ShapeLiteral, so that no later node of the fold overrides it.)      *)
(***************************************************************************)
LastOfLevel == send_level[Len(send_level)]

LiteralLast == Sent /\ send_level # << >> /\ LastOfLevel.kind = "ShapeLiteral"

C27_LiteralAsStated ==
    LiteralLast =>
        \A i \in 1..Len(edges) :
            msg[i] = LastOfLevel.label <=>
                /\ edges[i].property_id = LastOfLevel.predicate
                /\ edges[i].dtype = LastOfLevel.dtype

(***************************************************************************)
(* C27, amended.  An edge produces the label of a ShapeLiteral iff its     *)
(* predicate is the shape's, its dtype is the shape's datatype and its     *)
(* object is its subject: the edge of a literal value is a loop on its     *)
(* subject, and a DateTime edge to another vertex does not match.          *)
(***************************************************************************)
C27_LiteralOnLoop ==
    LiteralLast =>
        \A i \in 1..Len(edges) :
            msg[i] = LastOfLevel.label <=>
                /\ edges[i].property_id = LastOfLevel.predicate
                /\ edges[i].dtype = LastOfLevel.dtype
                /\ edges[i].dst = edges[i].src

\* a loop with the datatype sends the label, a DateTime edge to another
\* vertex does not
C27_Witness ==
    /\ LiteralLast
    /\ \E i, j \in 1..Len(edges) :
           /\ msg[i] = LastOfLevel.label
           /\ msg[j] # LastOfLevel.label
           /\ edges[j].property_id = LastOfLevel.predicate
           /\ edges[j].dtype = LastOfLevel.dtype
           /\ edges[j].dst # edges[j].src

(***************************************************************************)
(* C28.  Frame of validate: the edge table (its columns and its rows) is   *)
(* never modified; once the Pregel run has started, the labels column      *)
(* changes only in the vertex-update phase, which ends the superstep, so   *)
(* it is written once per superstep; the send phase, the aggregate phase   *)
(* and the final selection leave it as it is.                              *)
(***************************************************************************)
C28_Frame ==
    [][ /\ edges' = edges
        /\ columns' = columns
        /\ (pc = "Running" /\ labels' # labels => phase = "v_prog")
        /\ (pc # "Built" => (iteration' # iteration <=>
                                 pc = "Running" /\ phase = "v_prog"))
        /\ (pc = "Running" /\ phase = "v_prog" =>
                /\ iteration' = iteration + 1
                /\ phase' = "send"
                /\ labels' = [v \in Vertices |->
                                 v_prog(v_prog_level', shapeModule, aggregated[v])])
      ]_vars

\* a superstep has written the labels of a table, and the send phase and
\* the aggregate phase of the next one have run on them
C28_Witness ==
    /\ pc = "Running"
    /\ phase = "v_prog"
    /\ iteration >= 1
    /\ Len(edges) >= 2
    /\ \E v \in Vertices : labels[v] # NullList /\ aggregated[v] # labels[v]

(***************************************************************************)
(* C29.  ShapeTree::iterations() never wraps nor underflows its u8         *)
(* result: for every shape tree, also one of 256 levels or more, validate  *)
(* does not panic and runs as many supersteps as the tree has levels, one  *)
(* less when the tree contains a ShapeComposite or a Cardinality.          *)
(***************************************************************************)
C29_IterationsNeverWrap ==
    /\ pc # "Panicked"
    /\ Scheduled =>
          max_iterations =
              Len(shape_tree) - (IF contains_nary(shape_tree) THEN 1 ELSE 0)

(***************************************************************************)
(* C30.  Across the successive calls of next() on a ShapeIterator: no      *)
(* shape is yielded in more than one level; the last level yielded         *)
(* contains the shape the iterator was made from; and the call after that  *)
(* level, and every later one, returns None.                               *)
(***************************************************************************)
Yielded(i) == returned[i].tag = "Some"

C30_IteratorLevels ==
    /\ \A i, j \in 1..Len(returned) :
           i < j /\ Yielded(i) /\ Yielded(j) =>
               \A k \in 1..Len(returned[i].value) :
                   ~contains(returned[j].value, returned[i].value[k])
    /\ \A i \in 1..Len(returned) :
           ~Yielded(i) =>
               /\ i > 1
               /\ Yielded(i - 1) =>
                      contains(returned[i - 1].value, shapeIterator.shape)
    /\ \A i \in 1..Len(returned) :
           Yielded(i) /\ contains(returned[i].value, shapeIterator.shape) =>
               \A j \in (i + 1)..Len(returned) : ~Yielded(j)

====
